---- MODULE Spec2Model ----
(***************************************************************************)
(* RollingDB (src/db/rolling/impls.rs): a store made of two generations,   *)
(* "current" and "old", each a directory under the root, named by the      *)
(* persistent index db_index.yaml.                                         *)
(*                                                                         *)
(* Threads: the rotators call next_current; the clients call put_keyed     *)
(* (and its siblings put / put_many / put_many_keyed / insert, which have  *)
(* the same shape), get / has / contains, read_bin / exists and write_bin. *)
(* A step of the model is one lock acquisition, one DB call or one file    *)
(* system call of the code.  A process crash may happen between any two    *)
(* steps; load_or_create then runs again on what is on disk.               *)
(*                                                                         *)
(* load_actor_bundles (src/daemon/bundle.rs): the futures that fetch the   *)
(* actor bundles into a PersistentStore, under a semaphore of 4 permits,   *)
(* and the loader of a bundle file.  AsyncWriterWithChecksum               *)
(* (src/utils/io/writer_checksum.rs): a writer that hashes what its inner  *)
(* writer accepts.  Each has its own variables and specifications.         *)
(*                                                                         *)
(* An Option is a set with at most one element: {} is None, {v} is Some(v).*)
(***************************************************************************)
EXTENDS Integers, FiniteSets, Sequences, TLC

\* ------------------------------------------------------------------ bounds
\* Number of generation names Uuid::new_v4 may hand out in one behaviour.
MaxGen == 5

\* The name "" of a DbIndex field that was never set.
EmptyName == 0

Gens == 1..MaxGen
Rotators == {"r1", "r2", "r3"}
Clients == {"c1"}
\* Cids of blocks and names of settings.
Keys == {1, 2}
Names == {1}
\* Values of settings.
Vals == {1, 2}
\* Epochs passed to next_current.
Epochs == {1}

\* The bytes of the block whose Cid is k (the store is content-addressed).
Block(k) == k + 10

VARIABLES
    \* ---- on disk
    dirs,        \* the generation directories under the root
    blocks,      \* blocks[g][k]: Option of the bytes stored under k in g
    settings,    \* settings[g][n]: Option of the value of setting n in g
    disk_index,  \* Option of the record in db_index.yaml
    next_uuid,   \* the next name Uuid::new_v4 returns
    \* ---- in memory
    boot,        \* where load_or_create is, or "up", or "down"
    db_index,    \* RollingDB::db_index (FileBacked<DbIndex>::inner)
    current,     \* RollingDB::current
    old,         \* RollingDB::old
    rot,         \* per rotator: the locals of next_current
    cli,         \* per client: the locals of the operation in flight
    \* ---- history
    dirty,       \* a rotate or load failed, or the process crashed inside one
    pairs,       \* every (current, old) pairing the slots held outside a swap
    kput,        \* per key: Option of the number of swaps, 2 for two or more,
                 \*   since the freshest completed put of the key read `current`
    kdone,       \* per key: Some(n) while n < 2 next_current calls have returned
                 \*   since a put of the key that overlapped no such call
    kquiet,      \* per key: a put of the key has returned and no next_current
                 \*   call has been invoked since
    lastw,       \* per setting: Option of the value of the last write_bin
    snap,        \* Option of the get results at a drop and of whether the index
                 \*   record in memory was the persisted one, until the next write
    \* ---- load_actor_bundles (src/daemon/bundle.rs)
    persistent,  \* the Cids the PersistentStore `db` holds
    load,        \* the locals of the load_actor_bundles_* call, and its result
    task,        \* per bundle: the locals of its future in the FuturesUnordered
    semaphore,   \* the permits the Semaphore has left
    \* ---- AsyncWriterWithChecksum (src/utils/io/writer_checksum.rs)
    hasher,      \* AsyncWriterWithChecksum::hasher, Option of the digest state
    inner,       \* the bytes `inner` reported as accepted since the last
                 \*   finalize, or since construction
    checksum     \* the sequence of the values finalize returned, with the
                 \*   bytes accepted before each

rolling == <<dirs, blocks, settings, disk_index, next_uuid, boot, db_index, current,
             old, rot, cli, dirty, pairs, kput, kdone, kquiet, lastw, snap>>
bundle == <<persistent, load, task, semaphore>>
writer == <<hasher, inner, checksum>>

vars == <<rolling, bundle, writer>>

disk == <<dirs, blocks, settings, disk_index, next_uuid>>
history == <<dirty, pairs, kput, kdone, kquiet, lastw, snap>>

\* ------------------------------------------------------------------ values
\* DbIndex::default(): both names empty, epoch 0.
DefaultIndex == [current |-> EmptyName, old |-> EmptyName, current_creation_epoch |-> 0]

\* The locals of next_current; `solo` is history: Option of the slots, the
\* index record and the directories at the beginning of the call, kept as long
\* as no other next_current call has begun since.
RotIdle == [pc |-> "idle", new |-> 0, tmp |-> 0, del |-> 0, keys |-> {}, carry |-> {},
            solo |-> {}]
CliIdle == [pc |-> "idle", op |-> "none", k |-> 0, hc |-> 0, ho |-> 0, swaps |-> 0,
            raced |-> FALSE]

EmptyDb == [k \in Keys |-> {}]
EmptySettings == [n \in Names |-> {}]

Min(a, b) == IF a < b THEN a ELSE b

\* ------------------------------------------------------------------ bundles
\* Entries of the `bundles` slice (ACTOR_BUNDLES).
NumBundles == 7
Bundles == 1..NumBundles

\* Semaphore::new(4).
Permits == 4

\* The discriminants of NetworkChain that the entries carry.
Kinds == {"mainnet", "calibnet"}

\* ActorBundleInfo::network: the last entry is of another network.
NetworkOf(b) == IF b < NumBundles THEN "mainnet" ELSE "calibnet"

\* ActorBundleInfo::manifest, and the Cid of the other block of the bundle.
Manifest(b) == 2 * b
Code(b) == 2 * b + 1

\* A Cid that is the manifest of no entry.
Foreign == 0

\* The blocks a CarStream of the bundle of b yields, in order.
CarBlocks(b) == <<Manifest(b), Code(b)>>

\* The header roots a CAR file obtained for b may declare.
CarRoots(b) == {<<Manifest(b)>>, <<Foreign>>, <<Manifest(b), Foreign>>}

\* The locals of one future: `roots` is header_v1.roots, `left` the number of
\* blocks the stream has yet to yield.
TaskOut == [pc |-> "out", roots |-> <<>>, left |-> 0]

\* The locals of load_actor_bundles_from_server / _from_path; `result` is what
\* the call returned and `why` the statement that made it fail.
\* `present` is history: the entries for which db.has returned Ok(true) to the
\* filter.
LoadIdle == [pc |-> "idle", network |-> "none", roots |-> {}, left |-> 0,
             present |-> {}, result |-> "none", why |-> "none"]

InitBundle ==
    /\ persistent = {}
    /\ load = LoadIdle
    /\ task = [b \in Bundles |-> TaskOut]
    /\ semaphore = Permits

\* ------------------------------------------------------------------ digest
\* Longest input, in bytes, between two finalize calls.
MaxLen == 3
Bytes == {0, 1}

\* The buffers poll_write is called with.
Bufs == {<<>>} \cup {<<x>> : x \in Bytes} \cup {<<x, y>> : x, y \in Bytes}

\* A Digest D: its state is a number below DigestModulus.
DigestModulus == 61
DigestNew == 7

RECURSIVE DigestUpdate(_, _)
DigestUpdate(h, bytes) ==
    IF bytes = <<>> THEN h
    ELSE DigestUpdate((h * 3 + Head(bytes) + 1) % DigestModulus, Tail(bytes))

DigestFinalize(h) == (h * 5 + 2) % DigestModulus

\* D::digest(bytes): the digest of an input hashed in one piece.
DigestOf(bytes) == DigestFinalize(DigestUpdate(DigestNew, bytes))

\* AsyncWriterWithChecksum::new(writer, checksum_enabled), lines 73-82.
New(checksum_enabled) ==
    /\ hasher = IF checksum_enabled THEN {DigestNew} ELSE {}
    /\ inner = <<>>
    /\ checksum = <<>>

\* ------------------------------------------------------------------ init
InitRolling ==
    /\ dirs = {}
    /\ blocks = [g \in Gens |-> EmptyDb]
    /\ settings = [g \in Gens |-> EmptySettings]
    /\ disk_index = {}
    /\ next_uuid = 1
    /\ boot = "down"
    /\ db_index = DefaultIndex
    /\ current = 0
    /\ old = 0
    /\ rot = [r \in Rotators |-> RotIdle]
    /\ cli = [c \in Clients |-> CliIdle]
    /\ dirty = FALSE
    /\ pairs = {}
    /\ kput = [k \in Keys |-> {}]
    /\ kdone = [k \in Keys |-> {}]
    /\ kquiet = [k \in Keys |-> FALSE]
    /\ lastw = [n \in Names |-> {}]
    /\ snap = {}

\* A fresh db_root, no load of bundles begun, and a writer that computes no
\* checksum.
Init == InitRolling /\ InitBundle /\ New(FALSE)

\* ------------------------------------------------------------------ locks
\* parking_lot::RwLock: write() sets the writer bit and then waits for the
\* readers to leave; read() blocks while the writer bit is set, also when the
\* caller already holds a read guard.
\* Line 175: the guard of self.current.write() is a temporary of the whole
\* assignment statement, so it is held until *self.old.write() has been assigned.
WriteGuardDroppedEarly(pc) == pc = "swap_cur"

WriteGuardLive(pc) == pc \in {"swap_cur", "swap_old"}

CurWriterBit == \E r \in Rotators : WriteGuardLive(rot[r].pc)

\* The threads holding a read guard of `current` across steps: db_queue between
\* its two reads (line 222) and transfer_settings (line 226).
CurReaders ==
    {c \in Clients : cli[c].pc = "q_old"}
        \cup {r \in Rotators : rot[r].pc \in {"ts_keys", "ts_loop", "ts_write"}}

\* db_index.write() (line 177) is a local of next_current: held to its end.
IndexLocked ==
    \E r \in Rotators :
        rot[r].pc \in {"delete", "ts_begin", "ts_keys", "ts_loop", "ts_write"}

AllIdle ==
    /\ \A r \in Rotators : rot[r].pc = "idle"
    /\ \A c \in Clients : cli[c].pc = "idle"

Rotating == {r \in Rotators : rot[r].pc # "idle"}

\* The rotators between the two assignments of line 175.
Swapping == {r \in Rotators : rot[r].pc = "swap_old"}

\* ------------------------------------------------------------------ reads
\* The fan-out of has / get / contains over a db_queue pair q = <<current, old>>.
GetVia(q, k) == IF blocks[q[1]][k] # {} THEN blocks[q[1]][k] ELSE blocks[q[2]][k]

HasVia(q, k) == blocks[q[1]][k] # {} \/ blocks[q[2]][k] # {}

ReadBinViaOldFirst(q, n) ==
    IF settings[q[2]][n] # {} THEN settings[q[2]][n] ELSE settings[q[1]][n]

ReadBinVia(q, n) ==
    IF settings[q[1]][n] # {} THEN settings[q[1]][n] ELSE settings[q[2]][n]

ExistsVia(q, n) == settings[q[1]][n] # {} \/ settings[q[2]][n] # {}

SettingKeysVia(q) == {n \in Names : settings[q[1]][n] # {} \/ settings[q[2]][n] # {}}

\* The pair db_queue returns to a call made in this state.  Between the two
\* assignments of line 175 the caller waits for the write guard, and then reads
\* the pair the swap leaves.
LivePair ==
    IF Swapping = {} THEN <<current, old>>
    ELSE <<current, rot[CHOOSE r \in Swapping : TRUE].tmp>>

Get(k) == GetVia(LivePair, k)
Has(k) == HasVia(LivePair, k)
ReadBin(n) == ReadBinVia(LivePair, n)
Exists(n) == ExistsVia(LivePair, n)

\* ------------------------------------------------------------------ load_or_create
\* The content of a db_index.yaml that is not the YAML of a DbIndex.
CorruptIndex == [current |-> -1, old |-> -1, current_creation_epoch |-> -1]

\* Lines 148-150, DbIndex::deserialize: serde_yaml::from_slice gives the record
\* the bytes encode, or an error (None here) when they encode none.
DeserializeLenient(bytes) == {IF bytes = CorruptIndex THEN DefaultIndex ELSE bytes}

Deserialize(bytes) == IF bytes = CorruptIndex THEN {} ELSE {bytes}

\* FileBacked::load_from_file_or_create(db_index.yaml, Default::default): the
\* record deserialized from the file when the file exists, an error (None
\* here) when it cannot be deserialized, and a default record when there is no
\* file.
LoadFromFileOrCreate ==
    IF disk_index = {} THEN {DefaultIndex}
    ELSE UNION {Deserialize(bytes) : bytes \in disk_index}

\* Lines 240-248.  FileBacked::load_from_file_or_create(db_index.yaml,
\* Default::default) gives the record of the file, or a default record that is
\* persisted at once; empty names are then replaced by fresh ones.
LoadIndex ==
    /\ boot = "down"
    /\ LoadFromFileOrCreate # {}
    /\ LET loaded == CHOOSE i \in LoadFromFileOrCreate : TRUE
           cur == IF loaded.current = EmptyName THEN next_uuid ELSE loaded.current
           used == IF loaded.current = EmptyName THEN next_uuid + 1 ELSE next_uuid
           od == IF loaded.old = EmptyName THEN used ELSE loaded.old
           used2 == IF loaded.old = EmptyName THEN used + 1 ELSE used
       IN /\ used2 <= MaxGen + 1
          /\ disk_index' = IF disk_index = {} THEN {DefaultIndex} ELSE disk_index
          /\ db_index' = [loaded EXCEPT !.current = cur, !.old = od]
          /\ next_uuid' = used2
    /\ boot' = "ld_cur"
    /\ UNCHANGED <<dirs, blocks, settings, current, old, rot, cli, history>>
    /\ UNCHANGED <<bundle, writer>>

\* open_db(path): opens the directory, creating it, empty, when it is missing.
OpenDb(g) ==
    /\ dirs' = dirs \cup {g}
    /\ blocks' = IF g \in dirs THEN blocks ELSE [blocks EXCEPT ![g] = EmptyDb]
    /\ settings' = IF g \in dirs THEN settings ELSE [settings EXCEPT ![g] = EmptySettings]

\* Line 249: open_db(db_root.join(current)).
LoadOpenCurrent ==
    /\ boot = "ld_cur"
    /\ OpenDb(db_index.current)
    /\ boot' = "ld_old"
    /\ UNCHANGED <<disk_index, next_uuid, db_index, current, old, rot, cli, history>>
    /\ UNCHANGED <<bundle, writer>>

\* Line 250: open_db(db_root.join(old)).
LoadOpenOld ==
    /\ boot = "ld_old"
    /\ OpenDb(db_index.old)
    /\ boot' = "ld_sync"
    /\ UNCHANGED <<disk_index, next_uuid, db_index, current, old, rot, cli, history>>
    /\ UNCHANGED <<bundle, writer>>

\* Lines 251 and 160-166: db_index.sync() and the construction of Self.
LoadSync ==
    /\ boot = "ld_sync"
    /\ disk_index' = {db_index}
    /\ boot' = "up"
    /\ current' = db_index.current
    /\ old' = db_index.old
    /\ pairs' = {<<db_index.current, db_index.old>>}
    /\ UNCHANGED <<dirs, blocks, settings, next_uuid, db_index, rot, cli, dirty,
                   kput, kdone, kquiet, lastw, snap>>
    /\ UNCHANGED <<bundle, writer>>

\* Lines 249-251: open_db or sync fails, and load_or_create returns the error.
LoadFail ==
    /\ boot \in {"ld_cur", "ld_old", "ld_sync"}
    /\ boot' = "down"
    /\ db_index' = DefaultIndex
    /\ dirty' = TRUE
    /\ snap' = {}
    /\ UNCHANGED <<disk, current, old, rot, cli, pairs, kput, kdone, kquiet, lastw>>
    /\ UNCHANGED <<bundle, writer>>

\* Lines 240-241: load_from_file_or_create fails on a file that cannot be
\* deserialized, and load_dbs and load_or_create return the error.
LoadCorrupt ==
    /\ boot = "down"
    /\ LoadFromFileOrCreate = {}
    /\ dirty' = TRUE
    /\ UNCHANGED <<disk, boot, db_index, current, old, rot, cli, pairs, kput, kdone,
                   kquiet, lastw, snap>>
    /\ UNCHANGED <<bundle, writer>>

\* While no process runs, db_index.yaml is damaged.
CorruptFile ==
    /\ boot = "down"
    /\ disk_index # {}
    /\ disk_index' = {CorruptIndex}
    /\ UNCHANGED <<dirs, blocks, settings, next_uuid, boot, db_index, current, old,
                   rot, cli, history>>
    /\ UNCHANGED <<bundle, writer>>

\* The memory of a process that is gone.
MemoryLost ==
    /\ boot' = "down"
    /\ db_index' = DefaultIndex
    /\ current' = 0
    /\ old' = 0
    /\ rot' = [r \in Rotators |-> RotIdle]
    /\ cli' = [c \in Clients |-> CliIdle]
    /\ pairs' = {}
    /\ kput' = [k \in Keys |-> {}]
    /\ kdone' = [k \in Keys |-> {}]
    /\ kquiet' = [k \in Keys |-> FALSE]
    /\ lastw' = [n \in Names |-> {}]

\* drop(rolling_db): no call is in flight (the calls borrow the store).
Drop ==
    /\ boot = "up"
    /\ AllIdle
    /\ MemoryLost
    /\ snap' = {[get |-> [k \in Keys |-> Get(k)], synced |-> db_index \in disk_index]}
    /\ UNCHANGED <<disk, dirty>>
    /\ UNCHANGED <<bundle, writer>>

\* The process dies inside load_or_create or while a call is in flight.
Crash ==
    /\ boot # "down"
    /\ boot # "up" \/ ~AllIdle
    /\ MemoryLost
    /\ snap' = {}
    /\ dirty' = (dirty \/ boot # "up" \/ Rotating # {})
    /\ UNCHANGED disk
    /\ UNCHANGED <<bundle, writer>>

\* ------------------------------------------------------------------ next_current
Bump(o) == {Min(n + 1, 2) : n \in o}

\* A next_current call begins: the puts in flight overlap it.
Raced == [c \in Clients |-> IF cli[c].pc = "p_write" THEN [cli[c] EXCEPT !.raced = TRUE]
                            ELSE cli[c]]

\* A next_current call of r begins: the calls in progress are no longer alone.
Begun(r, locals) ==
    [x \in Rotators |-> IF x = r THEN locals ELSE [rot[x] EXCEPT !.solo = {}]]

\* A next_current call returns: the second one since a put ends the count.
Returns == [k \in Keys |-> {n + 1 : n \in kdone[k] \ {1}}]

\* Lines 172-174: a fresh name, and open_db creates the directory.
RotOpen(r) ==
    /\ boot = "up"
    /\ rot[r].pc = "idle"
    /\ next_uuid <= MaxGen
    /\ next_uuid' = next_uuid + 1
    /\ OpenDb(next_uuid)
    /\ rot' = Begun(r, [RotIdle EXCEPT
                           !.pc = "lock_cur", !.new = next_uuid,
                           !.solo = IF Rotating # {} THEN {}
                                    ELSE {[current |-> current, old |-> old,
                                           index |-> db_index, dirs |-> dirs]}])
    /\ cli' = Raced
    /\ kquiet' = [k \in Keys |-> FALSE]
    /\ snap' = {}
    /\ UNCHANGED <<disk_index, boot, db_index, current, old, dirty, pairs, kput,
                   kdone, lastw>>
    /\ UNCHANGED <<bundle, writer>>

\* Line 174, `?`: the locals of a call whose open_db failed, had it gone on to
\* line 175 with the name it generated.
AfterOpenFailContinues(r) ==
    [rot[r] EXCEPT !.pc = "lock_cur", !.new = next_uuid]

\* Line 174, `?`: the call whose open_db failed has returned.
AfterOpenFail(r) == rot[r]

\* Line 174: open_db fails and next_current returns the error. The failed
\* open_db may have created the directory before it failed.
RotOpenFail(r) ==
    /\ boot = "up"
    /\ rot[r].pc = "idle"
    /\ next_uuid <= MaxGen
    /\ next_uuid' = next_uuid + 1
    /\ \E left \in BOOLEAN :
          IF left THEN OpenDb(next_uuid) ELSE UNCHANGED <<dirs, blocks, settings>>
    /\ dirty' = TRUE
    /\ rot' = Begun(r, AfterOpenFail(r))
    /\ cli' = Raced
    /\ kdone' = Returns
    /\ kquiet' = [k \in Keys |-> FALSE]
    /\ UNCHANGED <<disk_index, boot, db_index, current, old, pairs, kput, lastw,
                   snap>>
    /\ UNCHANGED <<bundle, writer>>

\* Line 175, self.current.write(): the writer bit is set.
RotLockCurrent(r) ==
    /\ rot[r].pc = "lock_cur"
    /\ ~CurWriterBit
    /\ rot' = [rot EXCEPT ![r].pc = "swap_cur"]
    /\ UNCHANGED <<disk, boot, db_index, current, old, cli, history>>
    /\ UNCHANGED <<bundle, writer>>

\* Line 175: the handle std::mem::replace stores in `current`.
NewCurrentStale(r) == current

NewCurrent(r) == rot[r].new

\* Line 175, std::mem::replace(&mut current, db): once the readers have left.
RotSwapCurrent(r) ==
    /\ rot[r].pc = "swap_cur"
    /\ CurReaders = {}
    /\ current' = NewCurrent(r)
    /\ rot' = [rot EXCEPT ![r].pc = "swap_old", ![r].tmp = current]
    /\ cli' = [c \in Clients |->
                  IF cli[c].pc = "p_write"
                  THEN [cli[c] EXCEPT !.swaps = Min(cli[c].swaps + 1, 2)]
                  ELSE cli[c]]
    /\ kput' = [k \in Keys |-> Bump(kput[k])]
    /\ UNCHANGED <<disk, boot, db_index, old, dirty, pairs, kdone, kquiet,
                   lastw, snap>>
    /\ UNCHANGED <<bundle, writer>>

\* Line 175: the handle assigned to `old`, the one std::mem::replace returned.
NewOldKept(r) == old

NewOld(r) == rot[r].tmp

\* Line 175, *self.old.write() = <the replaced current>; both guards dropped.
RotSwapOld(r) ==
    /\ rot[r].pc = "swap_old"
    /\ old' = NewOld(r)
    /\ rot' = [rot EXCEPT ![r].pc = "index", ![r].tmp = 0]
    /\ pairs' = pairs \cup {<<current, old'>>}
    /\ UNCHANGED <<disk, boot, db_index, current, cli, dirty, kput, kdone,
                   kquiet, lastw, snap>>
    /\ UNCHANGED <<bundle, writer>>

\* Line 179: the directory next_current deletes.
OldDbPathOfCurrent(index) == index.current

OldDbPath(index) == index.old

\* Line 180: the name recorded as `old`, the one of the previous `current`.
IndexOld(index) == index.current

\* Line 181: the name recorded as `current`, the one of the new generation.
IndexCurrentKept(r, index) == index.current

IndexCurrent(r, index) == rot[r].new

\* Lines 177-183: under the index lock, the record is updated and synced.
RotIndex(r, e) ==
    /\ rot[r].pc = "index"
    /\ ~IndexLocked
    /\ db_index' = [current |-> IndexCurrent(r, db_index), old |-> IndexOld(db_index),
                    current_creation_epoch |-> e]
    /\ disk_index' = {db_index'}
    /\ rot' = [rot EXCEPT ![r].pc = "delete", ![r].del = OldDbPath(db_index)]
    /\ UNCHANGED <<dirs, blocks, settings, next_uuid, boot, current, old, cli,
                   history>>
    /\ UNCHANGED <<bundle, writer>>

\* Line 183, db_index.sync()?: the locals of a next_current call whose sync
\* failed; the call has returned, without reaching delete_db.
AfterSyncFailDeletes(r) == [rot[r] EXCEPT !.pc = "delete", !.del = db_index.old]

AfterSyncFail(r) == RotIdle

\* Line 183: the sync fails, and next_current returns the error.
RotIndexFail(r, e) ==
    /\ rot[r].pc = "index"
    /\ ~IndexLocked
    /\ db_index' = [current |-> IndexCurrent(r, db_index), old |-> IndexOld(db_index),
                    current_creation_epoch |-> e]
    /\ rot' = [rot EXCEPT ![r] = AfterSyncFail(r)]
    /\ dirty' = TRUE
    /\ kdone' = Returns
    /\ UNCHANGED <<disk, boot, current, old, cli, pairs, kput, kquiet, lastw, snap>>
    /\ UNCHANGED <<bundle, writer>>

\* Lines 255-270, delete_db: remove_dir_all.  The contents of a directory
\* that no slot of the store has open are gone with it.  What a handle that a
\* slot still holds reads after its directory was removed is not determined by
\* the code: the handle may go on serving what it held, or find nothing.
DeleteDbKeeps(g) == UNCHANGED <<dirs, blocks, settings>>

DeleteDb(g) ==
    /\ dirs' = dirs \ {g}
    /\ \E served \in {FALSE, (g \in {current, old})} :
          /\ blocks' = IF served THEN blocks ELSE [blocks EXCEPT ![g] = EmptyDb]
          /\ settings' = IF served THEN settings
                         ELSE [settings EXCEPT ![g] = EmptySettings]

RotDelete(r) ==
    /\ rot[r].pc = "delete"
    /\ DeleteDb(rot[r].del)
    /\ rot' = [rot EXCEPT ![r].pc = "ts_begin", ![r].del = 0]
    /\ UNCHANGED <<disk_index, next_uuid, boot, db_index, current, old, cli,
                   history>>
    /\ UNCHANGED <<bundle, writer>>

\* Lines 257-262 and 185-187: where next_current goes on after a remove_dir_all
\* that failed; delete_db returns nothing, and transfer_settings is next.
AfterDeleteFail == "ts_begin"

\* Lines 257-262: remove_dir_all fails, which is only logged.
RotDeleteFail(r) ==
    /\ rot[r].pc = "delete"
    /\ rot' = [rot EXCEPT ![r].pc = AfterDeleteFail, ![r].del = 0]
    /\ dirty' = TRUE
    /\ UNCHANGED <<disk, boot, db_index, current, old, cli, pairs, kput,
                   kdone, kquiet, lastw, snap>>
    /\ UNCHANGED <<bundle, writer>>

\* Line 226: let current = self.current.read().
TsBegin(r) ==
    /\ rot[r].pc = "ts_begin"
    /\ ~CurWriterBit
    /\ rot' = [rot EXCEPT ![r].pc = "ts_keys"]
    /\ UNCHANGED <<disk, boot, db_index, current, old, cli, history>>
    /\ UNCHANGED <<bundle, writer>>

\* Line 227: the names transfer_settings iterates over, self.setting_keys().
CarryKeys == SettingKeysVia(<<current, old>>)

\* Line 227: self.setting_keys(), which reads both slots through db_queue.
TsKeys(r) ==
    /\ rot[r].pc = "ts_keys"
    /\ ~CurWriterBit
    /\ rot' = [rot EXCEPT ![r].pc = "ts_loop", ![r].keys = CarryKeys]
    /\ UNCHANGED <<disk, boot, db_index, current, old, cli, history>>
    /\ UNCHANGED <<bundle, writer>>

\* Line 228: current.exists(key) is true, nothing to carry.
TsSkip(r, n) ==
    /\ rot[r].pc = "ts_loop"
    /\ n \in rot[r].keys
    /\ settings[current][n] # {}
    /\ rot' = [rot EXCEPT ![r].keys = @ \ {n}]
    /\ UNCHANGED <<disk, boot, db_index, current, old, cli, history>>
    /\ UNCHANGED <<bundle, writer>>

\* Lines 228-229: current.exists(key) is false, and self.read_bin(key) reads
\* the value through db_queue.
TsRead(r, n) ==
    /\ rot[r].pc = "ts_loop"
    /\ n \in rot[r].keys
    /\ settings[current][n] = {}
    /\ ~CurWriterBit
    /\ rot' = [rot EXCEPT ![r].pc = "ts_write", ![r].keys = @ \ {n},
                          ![r].carry = {<<n, v>> : v \in ReadBinVia(<<current, old>>, n)}]
    /\ UNCHANGED <<disk, boot, db_index, current, old, cli, history>>
    /\ UNCHANGED <<bundle, writer>>

\* Line 230: current.write_bin(key, v), when read_bin returned Some(v).
TsWrite(r) ==
    /\ rot[r].pc = "ts_write"
    /\ settings' = [settings EXCEPT ![current] =
                       [n \in Names |->
                           IF \E v \in Vals : <<n, v>> \in rot[r].carry
                           THEN {v \in Vals : <<n, v>> \in rot[r].carry}
                           ELSE settings[current][n]]]
    /\ rot' = [rot EXCEPT ![r].pc = "ts_loop", ![r].carry = {}]
    /\ UNCHANGED <<dirs, blocks, disk_index, next_uuid, boot, db_index, current,
                   old, cli, history>>
    /\ UNCHANGED <<bundle, writer>>

\* Lines 233-235 and 187-189: the loop is over, the guards are dropped, Ok(()).
TsDone(r) ==
    /\ rot[r].pc = "ts_loop"
    /\ rot[r].keys = {}
    /\ rot' = [rot EXCEPT ![r] = RotIdle]
    /\ kdone' = Returns
    /\ UNCHANGED <<disk, boot, db_index, current, old, cli, dirty, pairs,
                   kput, kquiet, lastw, snap>>
    /\ UNCHANGED <<bundle, writer>>

\* ------------------------------------------------------------------ clients
Freshest(o, n) == IF o = {} THEN {n} ELSE {Min(m, n) : m \in o}

\* Lines 217-219, RollingDB::current(): the handle in the `current` slot.
CurrentClone == current

\* Line 218, self.current(): the handle is cloned and the read guard dropped.
PutBegin(c, k) ==
    /\ boot = "up"
    /\ cli[c].pc = "idle"
    /\ ~CurWriterBit
    /\ cli' = [cli EXCEPT ![c] = [CliIdle EXCEPT !.pc = "p_write", !.op = "put",
                                                 !.k = k, !.hc = CurrentClone,
                                                 !.raced = (Rotating # {})]]
    /\ UNCHANGED <<disk, boot, db_index, current, old, rot, history>>
    /\ UNCHANGED <<bundle, writer>>

\* Lines 38-70: Blockstore::put_keyed on the cloned handle returns Ok, and the
\* handle holds the block.
PutWrite(c) ==
    /\ cli[c].pc = "p_write"
    /\ blocks' = [blocks EXCEPT ![cli[c].hc][cli[c].k] = {Block(cli[c].k)}]
    /\ kquiet' = [kquiet EXCEPT ![cli[c].k] = TRUE]
    /\ kput' = [kput EXCEPT ![cli[c].k] = Freshest(@, cli[c].swaps)]
    /\ kdone' = [kdone EXCEPT ![cli[c].k] = IF cli[c].raced THEN @ ELSE {0}]
    /\ snap' = {}
    /\ cli' = [cli EXCEPT ![c] = CliIdle]
    /\ UNCHANGED <<dirs, settings, disk_index, next_uuid, boot, db_index, current,
                   old, rot, dirty, pairs, lastw>>
    /\ UNCHANGED <<bundle, writer>>

\* Lines 38-70: put_keyed on a handle whose directory is gone returns an error.
PutFail(c) ==
    /\ cli[c].pc = "p_write"
    /\ cli[c].hc \notin dirs
    /\ cli' = [cli EXCEPT ![c] = CliIdle]
    /\ UNCHANGED <<disk, boot, db_index, current, old, rot, history>>
    /\ UNCHANGED <<bundle, writer>>

\* Line 222, db_queue, first element: self.current.read().clone(); the guard
\* is a temporary of the array expression and stays held.
QueueCurrent(c, op, k) ==
    /\ boot = "up"
    /\ cli[c].pc = "idle"
    /\ ~CurWriterBit
    /\ cli' = [cli EXCEPT ![c] = [CliIdle EXCEPT !.pc = "q_old", !.op = op,
                                                 !.k = k, !.hc = current]]
    /\ UNCHANGED <<disk, boot, db_index, current, old, rot, history>>
    /\ UNCHANGED <<bundle, writer>>

\* Line 222, second element: self.old.read().clone(); both guards dropped.
QueueOld(c) ==
    /\ cli[c].pc = "q_old"
    /\ cli' = [cli EXCEPT ![c].pc = "q_eval", ![c].ho = old]
    /\ UNCHANGED <<disk, boot, db_index, current, old, rot, history>>
    /\ UNCHANGED <<bundle, writer>>

\* Lines 18-36, 74-96, 108-126: the loop over the two handles, and the return.
QueueEval(c) ==
    /\ cli[c].pc = "q_eval"
    /\ cli' = [cli EXCEPT ![c] = CliIdle]
    /\ UNCHANGED <<disk, boot, db_index, current, old, rot, history>>
    /\ UNCHANGED <<bundle, writer>>

\* The operations that read the index record: current_creation_epoch (lines
\* 192-194), old_size_in_bytes (201-207) and current_size_in_bytes (209-215);
\* total_size_in_bytes (196-199) calls the last two in turn.
IndexOps == {"current_creation_epoch", "old_size_in_bytes", "current_size_in_bytes"}

\* Lines 193, 205, 213: the call has begun and is at self.db_index.read().
IndexReadBegin(c, op) ==
    /\ boot = "up"
    /\ cli[c].pc = "idle"
    /\ cli' = [cli EXCEPT ![c] = [CliIdle EXCEPT !.pc = "i_lock", !.op = op]]
    /\ UNCHANGED <<disk, boot, db_index, current, old, rot, history>>
    /\ UNCHANGED <<bundle, writer>>

\* Lines 193, 205, 213: self.db_index.read() is granted once no next_current
\* call holds the write guard of line 177; the field is read and the call
\* returns.
IndexRead(c) ==
    /\ cli[c].pc = "i_lock"
    /\ ~IndexLocked
    /\ cli' = [cli EXCEPT ![c] = CliIdle]
    /\ UNCHANGED <<disk, boot, db_index, current, old, rot, history>>
    /\ UNCHANGED <<bundle, writer>>

\* Line 85: the generation write_bin writes to, under the read guard of current.
WriteBinTargetOld == old

WriteBinTarget == current

WriteBin(c, n, v) ==
    /\ boot = "up"
    /\ cli[c].pc = "idle"
    /\ ~CurWriterBit
    /\ settings' = [settings EXCEPT ![WriteBinTarget][n] = {v}]
    /\ lastw' = [lastw EXCEPT ![n] = {v}]
    /\ snap' = {}
    /\ UNCHANGED <<dirs, blocks, disk_index, next_uuid, boot, db_index, current,
                   old, rot, cli, dirty, pairs, kput, kdone, kquiet>>
    /\ UNCHANGED <<bundle, writer>>

\* ------------------------------------------------------------------ specifications
Load ==
    \/ LoadIndex
    \/ LoadOpenCurrent
    \/ LoadOpenOld
    \/ LoadSync

\* The steps of a next_current call in which every file system call succeeds.
RotateSteps(r) ==
    \/ RotOpen(r)
    \/ RotLockCurrent(r)
    \/ RotSwapCurrent(r)
    \/ RotSwapOld(r)
    \/ \E e \in Epochs : RotIndex(r, e)
    \/ RotDelete(r)
    \/ TsBegin(r)
    \/ TsKeys(r)
    \/ TsDone(r)

\* The steps of a next_current call in which a file system call fails.
FailSteps(r) ==
    \/ RotOpenFail(r)
    \/ \E e \in Epochs : RotIndexFail(r, e)
    \/ RotDeleteFail(r)

\* The body of the loop of transfer_settings, which runs when a setting exists.
CarrySteps(r) ==
    \/ \E n \in Names : TsSkip(r, n)
    \/ \E n \in Names : TsRead(r, n)
    \/ TsWrite(r)

Put(c) ==
    \/ \E k \in Keys : PutBegin(c, k)
    \/ PutWrite(c)
    \/ PutFail(c)

\* The puts of one block.
PutOne(c, k) ==
    \/ PutBegin(c, k)
    \/ PutWrite(c)
    \/ PutFail(c)

GetCall(c) ==
    \/ \E k \in Keys : QueueCurrent(c, "get", k)
    \/ QueueOld(c)
    \/ QueueEval(c)

IndexReadCall(c) ==
    \/ \E op \in IndexOps : IndexReadBegin(c, op)
    \/ IndexRead(c)

ReadBinCall(c) ==
    \/ \E n \in Names : QueueCurrent(c, "read_bin", n)
    \/ QueueOld(c)
    \/ QueueEval(c)

\* One process: load_or_create on an empty root, then two threads that rotate,
\* no file system call of which fails, and a thread that puts blocks.
Next ==
    \/ Load
    \/ \E r \in {"r1", "r2"} : RotateSteps(r)
    \/ \E c \in Clients : Put(c)

Spec == Init /\ [][Next]_vars

\* The same process with three threads that rotate and a thread that puts one
\* block.
NextPutOne ==
    \/ Load
    \/ \E r \in Rotators : RotateSteps(r)
    \/ \E c \in Clients : PutOne(c, 1)

SpecPutOne == Init /\ [][NextPutOne]_vars

\* The same process with a thread that gets blocks.
NextReads ==
    \/ Load
    \/ \E r \in Rotators : RotateSteps(r) \/ FailSteps(r)
    \/ \E c \in Clients : GetCall(c)

SpecReads == Init /\ [][NextReads]_vars

\* The same process with one thread that rotates, each next_current call
\* completing before the next one begins, and a thread that writes and reads
\* settings.
NextSettings ==
    \/ Load
    \/ RotateSteps("r1")
    \/ FailSteps("r1")
    \/ CarrySteps("r1")
    \/ \E c \in Clients : ReadBinCall(c) \/ \E n \in Names, v \in Vals : WriteBin(c, n, v)

SpecSettings == Init /\ [][NextSettings]_vars

\* The same process with one thread that rotates, no file system call of which
\* fails, and a thread that puts blocks and writes settings.
NextWrites ==
    \/ Load
    \/ RotateSteps("r1")
    \/ CarrySteps("r1")
    \/ \E c \in Clients : Put(c) \/ \E n \in Names, v \in Vals : WriteBin(c, n, v)

SpecWrites == Init /\ [][NextWrites]_vars

\* Processes that are dropped and started again on the same root, each with
\* one thread that rotates and a thread that puts.
NextRestart ==
    \/ Load
    \/ Drop
    \/ RotateSteps("r1")
    \/ FailSteps("r1")
    \/ \E c \in Clients : Put(c)

SpecRestart == Init /\ [][NextRestart]_vars

\* Processes that are dropped, fail to load or crash, and are started again on
\* the same root, each with the threads that rotate.
NextCrash ==
    \/ Load
    \/ LoadFail
    \/ Drop
    \/ Crash
    \/ \E r \in Rotators : RotateSteps(r) \/ FailSteps(r)

SpecCrash == Init /\ [][NextCrash]_vars

\* One process with one thread that rotates, no file system call of which
\* fails, and a thread that puts a block, writes settings and reads both.
NextFanOut ==
    \/ Load
    \/ RotateSteps("r1")
    \/ CarrySteps("r1")
    \/ \E c \in Clients :
          \/ PutOne(c, 1)
          \/ \E n \in Names, v \in Vals : WriteBin(c, n, v)
          \/ GetCall(c)
          \/ ReadBinCall(c)

SpecFanOut == Init /\ [][NextFanOut]_vars

\* Processes that are dropped and started again on the same root, whose index
\* file may be damaged in between, each with one thread that rotates and a
\* thread that puts a block.
NextCorrupt ==
    \/ Load
    \/ LoadCorrupt
    \/ CorruptFile
    \/ Drop
    \/ RotateSteps("r1")
    \/ \E c \in Clients : PutOne(c, 1)

SpecCorrupt == Init /\ [][NextCorrupt]_vars

\* One process with one thread that rotates, whose file system calls may
\* fail, and a thread that puts a block.
NextFail ==
    \/ Load
    \/ RotateSteps("r1")
    \/ FailSteps("r1")
    \/ \E c \in Clients : PutOne(c, 1)

SpecFail == Init /\ [][NextFail]_vars

\* One process with one thread that rotates, no file system call of which
\* fails, and a thread that gets blocks and reads the epoch and the sizes.
NextIndexReaders ==
    \/ Load
    \/ RotateSteps("r1")
    \/ \E c \in Clients : GetCall(c) \/ IndexReadCall(c)

SpecIndexReaders == Init /\ [][NextIndexReaders]_vars

\* ---------------------------------------------------------------------------
\* Properties
\* ---------------------------------------------------------------------------

\* C1: once a put of k has returned Ok, no next_current call has been invoked
\* since it returned and none has replaced the current handle since the put
\* cloned it, get(k) returns the block and has(k) is true.
C1_ReadAfterWrite ==
    boot = "up" =>
        \A k \in Keys :
            (kquiet[k] /\ kput[k] = {0}) => (Get(k) = {Block(k)} /\ Has(k))

\* C2: for a key whose put overlapped no next_current call, has(k) is true and
\* get(k) returns the block as long as at most one next_current call has
\* replaced the current handle since the put, which is the case until a second
\* call has completed.
C2_SurvivesOneRotation ==
    boot = "up" =>
        \A k \in Keys :
            (kdone[k] # {} /\ (kput[k] = {0} \/ kput[k] = {1}))
                => (Has(k) /\ Get(k) = {Block(k)})

\* C3: when no next_current call is in progress, two or more calls have
\* replaced the current handle since the last put of k1, and exactly one call,
\* which has completed, was invoked since a put of k2 that overlapped no call:
\* has(k1) is false, get(k1) is None, has(k2) is true and get(k2) returns the
\* block.
C3_RotationPruning ==
    (boot = "up" /\ Rotating = {}) =>
        \A k1, k2 \in Keys :
            (kput[k1] = {2} /\ kput[k2] = {1} /\ kdone[k2] = {1})
                => (~Has(k1) /\ Get(k1) = {} /\ Has(k2) /\ Get(k2) = {Block(k2)})

\* C4, as stated: a store that was dropped while no next_current call was in
\* progress and loaded again on the same root answers get(k), and so has(k),
\* for every key as it did just before it was dropped.
C4_RestartDurabilityAsStated ==
    boot = "up" => \A before \in snap : \A k \in Keys : Get(k) = before.get[k]

\* C4, for the drops at which the index record in memory is the persisted one,
\* that is when the index sync of the last next_current call did not fail: the
\* store loaded again answers get(k) for every key as it did before the drop.
C4_RestartDurabilityWhenSynced ==
    boot = "up" =>
        \A before \in snap :
            before.synced => \A k \in Keys : Get(k) = before.get[k]

\* C5, as stated: once write_bin(name, v) has returned, exists(name) is true
\* and read_bin(name) returns a value in every later state, whatever the
\* number of next_current calls, each completing before the next one begins.
C5_NoSettingLostAsStated ==
    boot = "up" =>
        \A n \in Names : lastw[n] # {} => (Exists(n) /\ ReadBin(n) # {})

\* C5, for the runs in which no step of a next_current call has failed: a
\* setting that write_bin has written exists and read_bin returns a value.
C5_NoSettingLostWithoutFailure ==
    (boot = "up" /\ ~dirty) =>
        \A n \in Names : lastw[n] # {} => (Exists(n) /\ ReadBin(n) # {})

\* C6, as stated, for the runs in which no step fails: read_bin(name) returns
\* the value of the most recent completed write_bin(name, .) whatever the
\* interleaving of write_bin calls with next_current calls.
C6_NoDivergence ==
    (boot = "up" /\ ~dirty) =>
        \A n \in Names : lastw[n] # {} => ReadBin(n) = lastw[n]

\* The generation directories named by the index record persisted on disk.
PersistedNames == UNION {{i.current, i.old} \ {EmptyName} : i \in disk_index}

\* C7: as long as no step has failed and no process has crashed inside a call,
\* whenever the store is loaded and no next_current call is in progress exactly
\* two generation directories exist and they are the two the persisted index
\* names; while a single next_current call is in progress at most three exist.
C7_TwoGenerations ==
    ~dirty =>
        /\ (boot = "up" /\ Rotating = {}) =>
                (Cardinality(dirs) = 2 /\ dirs = PersistedNames)
        /\ Cardinality(Rotating) = 1 => Cardinality(dirs) <= 3

\* C7: a next_current call has completed, after which two directories exist,
\* one of them created by that call.
C7_Witness ==
    /\ ~dirty
    /\ boot = "up"
    /\ Rotating = {}
    /\ Cardinality(dirs) = 2
    /\ \E i \in disk_index : i.current_creation_epoch \in Epochs

\* C8: in every state, those left by a crash inside load_or_create or
\* next_current and by a next_current whose index sync failed included, the
\* generation directories named by the persisted index record exist on disk.
C8_CrashConsistency == PersistedNames \subseteq dirs

\* C8: the process crashed inside next_current after the index was persisted
\* and before the stale generation was deleted: three directories are left.
C8_Witness ==
    /\ boot = "down"
    /\ dirty
    /\ Cardinality(dirs) = 3
    /\ \E i \in disk_index : i.current_creation_epoch \in Epochs

\* C9: a read that has taken its two handles through db_queue evaluates against
\* a (current, old) pair that the store held at one moment, the pair before a
\* swap or the pair after it, and never against a generation paired with itself.
C9_NoTornRead ==
    \A c \in Clients :
        cli[c].pc = "q_eval" =>
            (<<cli[c].hc, cli[c].ho>> \in pairs /\ cli[c].hc # cli[c].ho)

\* C9: a read holds the pair from before a swap while the rotation that swapped
\* is still in progress.
C9_Witness ==
    \E c \in Clients :
        /\ cli[c].pc = "q_eval"
        /\ cli[c].ho # old
        /\ cli[c].hc = old
        /\ Rotating # {}

\* C10, as stated: no step of a put or of a write_bin modifies the generation
\* that the old slot references at the moment the write is applied.
C10_WritesNeverReachOld ==
    [][(boot = "up" /\ boot' = "up" /\ rot' = rot)
          => (blocks'[old] = blocks[old] /\ settings'[old] = settings[old])]_vars

\* C10, amended: write_bin never modifies the generation in the old slot, and
\* a put modifies only the generation that was in the current slot when the put
\* cloned the handle: that generation is still the current one if no
\* next_current call replaced the handle in between, and it is in the old slot
\* at the moment of the write only if one did.
C10_WritesGoToClonedCurrent ==
    [][(boot = "up" /\ boot' = "up" /\ rot' = rot) =>
          /\ settings'[old] = settings[old]
          /\ \A g \in Gens :
                blocks'[g] # blocks[g] =>
                    \E c \in Clients :
                        /\ cli[c].pc = "p_write"
                        /\ cli'[c].pc = "idle"
                        /\ g = cli[c].hc
                        /\ cli[c].swaps = 0 => g = LivePair[1]
                        /\ g = old => cli[c].swaps >= 1]_vars

\* C10: a put is about to write through a handle cloned before a swap, which
\* the swap moved to the old slot, and a write_bin made before the swap has
\* written a setting into the generation that was the current one.
C10_Witness ==
    /\ boot = "up"
    /\ \E c \in Clients : cli[c].pc = "p_write" /\ cli[c].hc = old /\ cli[c].swaps = 1
    /\ \E n \in Names : /\ lastw[n] # {}
                         /\ settings[old][n] = lastw[n]
                         /\ settings[current][n] = {}

WellFormed(index) ==
    /\ index.current # EmptyName
    /\ index.old # EmptyName
    /\ index.current # index.old

\* C12: when there is no index record on disk, load_or_create takes two fresh
\* names, different from each other and from every existing directory, and
\* persists them with epoch 0; the record of a loaded store is well formed in
\* memory and on disk; and a well-formed record on disk is only ever replaced
\* by a well-formed one, whatever the rotations and restarts.
C12_IndexWellFormed ==
    /\ [](boot = "up" =>
            /\ WellFormed(db_index)
            /\ disk_index # {}
            /\ \A i \in disk_index : WellFormed(i))
    /\ [][((LoadIndex /\ disk_index = {}) =>
                (/\ WellFormed(db_index')
                 /\ db_index'.current_creation_epoch = 0
                 /\ {db_index'.current, db_index'.old} \cap dirs = {}))
           /\ (LoadSync => disk_index' = {db_index})
           /\ ((disk_index # {} /\ \A i \in disk_index : WellFormed(i))
                  => (\A j \in disk_index' : WellFormed(j)))]_vars

\* C12: a store created on an empty root has rotated twice, once with a failed
\* index sync, was dropped and is loaded again.
C12_Witness ==
    /\ boot = "up"
    /\ dirty
    /\ Rotating = {}
    /\ snap # {}
    /\ \E i \in disk_index : i.current > 2 /\ i.old > 2

\* C13: when db_index.yaml exists and cannot be deserialized, no step of
\* load_or_create gives a store, rewrites the index file, or creates or deletes
\* a generation directory.
C13_CorruptIndexFatal ==
    [][(boot = "down" /\ CorruptIndex \in disk_index)
          => (boot' = "down" /\ disk_index' = disk_index /\ dirs' = dirs)]_vars

\* C13: load_or_create has failed on the damaged index file of a store that
\* had rotated.
C13_Witness ==
    /\ boot = "down"
    /\ dirty
    /\ CorruptIndex \in disk_index
    /\ \E g \in dirs : g > 2

\* C14: when remove_dir_all fails in a next_current call, the directory left
\* behind is held by neither slot, so that reads and writes behave as if it had
\* been removed, and it is named by no index record.
C14_UndeletedDirectoryUnused ==
    [][\A r \in Rotators :
          RotDeleteFail(r) =>
              LET g == rot[r].del
              IN /\ rot'[r].pc = "ts_begin"
                 /\ disk_index' = {db_index'}
                 /\ g \notin {db_index'.current, db_index'.old}
                 /\ g \notin {current', old'}]_vars

\* C14, for next_current calls that do not overlap: when remove_dir_all fails
\* in a next_current call, the call goes on to
\* transfer_settings; the slots hold the new generation and the previous
\* current one, the persisted index is the record in memory and names them;
\* the directory left behind is named by no index record and held by no slot,
\* so that every get and has answers as it would had the directory been
\* removed, and no put or write_bin reaches it.
C14_DeleteFailureNonFatal ==
    [][\A r \in Rotators :
          RotDeleteFail(r) =>
              LET g == rot[r].del
                  removed == [blocks EXCEPT ![g] = EmptyDb]
              IN /\ rot'[r].pc = "ts_begin"
                 /\ current' = rot[r].new
                 /\ disk_index' = {db_index'}
                 /\ db_index'.current = current'
                 /\ db_index'.old = old'
                 /\ g \in dirs'
                 /\ g \notin {current', old', db_index'.current, db_index'.old}
                 /\ \A k \in Keys :
                       (Get(k))' = (IF removed[current'][k] # {} THEN removed[current'][k]
                                   ELSE removed[old'][k])
                 /\ CurrentClone' # g
                 /\ WriteBinTarget' # g]_vars

\* C15: a next_current call is at delete_db only after its own index sync has
\* succeeded: the persisted record is then the one in memory, names the new
\* generation of that call as current and does not name the directory to be
\* removed; a directory disappears only in such a step; and a call whose sync
\* fails returns without removing any directory or writing the index file.
C15_SyncBeforeDelete ==
    /\ [](\A r \in Rotators :
             rot[r].pc = "delete" =>
                 /\ disk_index = {db_index}
                 /\ db_index.current = rot[r].new
                 /\ rot[r].del \notin PersistedNames)
    /\ [][(\A g \in dirs \ dirs' :
               \E r \in Rotators : rot[r].pc = "delete" /\ rot[r].del = g)
           /\ (\A r \in Rotators, e \in Epochs :
                  RotIndexFail(r, e) =>
                      (dirs' = dirs /\ disk_index' = disk_index /\ rot'[r].pc = "idle"))]_vars

\* C15: after a call whose sync failed, another call has synced and is about
\* to remove a directory, which still exists.
C15_Witness ==
    /\ dirty
    /\ db_index \notin {DefaultIndex}
    /\ \E r \in Rotators : /\ rot[r].pc = "delete"
                            /\ rot[r].del \in dirs
                            /\ Cardinality(dirs) >= 4

\* C16, as stated: when a next_current(e) call during which no other call ran
\* returns Ok, the current handle is the generation the call created under a
\* name no directory had, it holds no block, the old handle is the generation
\* that was current before the call, the one that was old is in no slot, and
\* the index holds the new name, the previous index.current and e.
C16_RotationTransitionAsStated ==
    [][\A r \in Rotators :
          /\ (TsDone(r) /\ rot[r].solo # {}) =>
                 LET pre == CHOOSE x \in rot[r].solo : TRUE
                 IN /\ current' = rot[r].new
                    /\ rot[r].new \notin pre.dirs
                    /\ blocks'[current'] = EmptyDb
                    /\ old' = pre.current
                    /\ pre.old \notin {current', old'}
                    /\ db_index'.current = rot[r].new
                    /\ db_index'.old = pre.index.current
          /\ \A e \in Epochs :
                 RotIndex(r, e) => db_index'.current_creation_epoch = e]_vars

\* C16, amended: the same, except that the new generation holds no block at
\* the moment it becomes the current handle, rather than when the call returns.
C16_RotationTransition ==
    [][\A r \in Rotators :
          /\ (TsDone(r) /\ rot[r].solo # {}) =>
                 LET pre == CHOOSE x \in rot[r].solo : TRUE
                 IN /\ current' = rot[r].new
                    /\ rot[r].new \notin pre.dirs
                    /\ old' = pre.current
                    /\ pre.old \notin {current', old'}
                    /\ db_index'.current = rot[r].new
                    /\ db_index'.old = pre.index.current
          /\ RotSwapCurrent(r) => blocks'[current'] = EmptyDb
          /\ \A e \in Epochs :
                 RotIndex(r, e) => db_index'.current_creation_epoch = e]_vars

\* C16: a call that ran alone is about to return Ok; a put made before the call
\* is served from old, and a put made after the swap is in the new current.
C16_Witness ==
    \E r \in Rotators :
        /\ rot[r].pc = "ts_loop"
        /\ rot[r].keys = {}
        /\ \E pre \in rot[r].solo : old = pre.current /\ blocks[old] # EmptyDb
        /\ current = rot[r].new
        /\ blocks[current] # EmptyDb

\* C17: no reader operation is ever waiting for the lock of the index while a
\* next_current call holds it, that is while the call persists the index,
\* deletes the old directory or carries the settings forward.
C17_ReadersNeverWaitForIndex ==
    \A c \in Clients : ~(cli[c].pc = "i_lock" /\ IndexLocked)

\* C18: no state is reachable in which next_current calls are in progress and
\* no call in progress, of next_current or of a client operation, can take a
\* step, each waiting for a lock that only another waiting call could release.
C18_NoRotateBlockedForever ==
    Rotating # {} =>
        ENABLED (\/ \E r \in Rotators :
                       rot[r].pc # "idle" /\ (RotateSteps(r) \/ CarrySteps(r))
                 \/ \E c \in Clients :
                       cli[c].pc # "idle" /\ (Put(c) \/ GetCall(c) \/ IndexReadCall(c)))

\* C19: whenever the store is loaded and no next_current call is in progress,
\* index.current names the generation in the current slot, index.old the one
\* in the old slot, and the index file holds the record in memory.
C19_IndexAgreesWithHandles ==
    (boot = "up" /\ Rotating = {}) =>
        /\ db_index.current = current
        /\ db_index.old = old
        /\ disk_index = {db_index}

\* C20: a next_current call whose open_db fails returns at once and leaves the
\* handle in the current slot, the handle in the old slot, the index record in
\* memory, the index file and the directories the index names, with their
\* contents, as they were when it was called.
C20_OpenFailureChangesNothing ==
    [][\A r \in Rotators :
          RotOpenFail(r) =>
              /\ rot'[r].pc = "idle"
              /\ current' = current
              /\ old' = old
              /\ db_index' = db_index
              /\ disk_index' = disk_index
              /\ \A g \in {db_index.current, db_index.old} \cup PersistedNames :
                     /\ (g \in dirs') = (g \in dirs)
                     /\ blocks'[g] = blocks[g]
                     /\ settings'[g] = settings[g]]_vars

\* C20: a next_current call of a loaded store failed in open_db after an
\* earlier call had rotated it: a name was consumed by the failed call, no call
\* is in progress, and the slots, the record and the file still name the two
\* generations the earlier call left.
C20_Witness ==
    /\ boot = "up"
    /\ Rotating = {}
    /\ dirty
    /\ db_index.current_creation_epoch \in Epochs
    /\ next_uuid > db_index.current + 1
    /\ current = db_index.current
    /\ old = db_index.old
    /\ disk_index = {db_index}
    /\ PersistedNames \subseteq dirs

\* ------------------------------------------------------------------ load_actor_bundles
\* put_keyed_persistent by an earlier load: the block k is in the store before
\* the call begins.
PutKeyedPersistent(k) ==
    /\ load.pc = "idle"
    /\ k \notin persistent
    /\ persistent' = persistent \cup {k}
    /\ UNCHANGED <<load, task, semaphore, rolling, writer>>

\* db.has(k), line 97: Ok(true), Ok(false) or an error.
HasResults(k) == {IF k \in persistent THEN "true" ELSE "false", "err"}

\* Result::unwrap_or(false), line 97.
UnwrapOrFalse(res) == res = "true"

\* Lines 96-101: the entries the filter lets through.
Selected(network, has) ==
    {b \in Bundles : ~UnwrapOrFalse(has[b]) /\ NetworkOf(b) = network}

\* A semaphore whose acquire never waits.
PermitAlways == TRUE

\* Line 112, semaphore.acquire(): a permit is left.
PermitAvailable == semaphore > 0

\* The futures past line 112 that have not finished.
Holding == {b \in Bundles : task[b].pc \in {"download", "alt", "read", "blocks"}}

\* try_collect polls the futures one at a time on the thread of the caller,
\* and lines 122-130 have no await that can return Pending (the stream reads
\* from a Cursor): while a future is there, no other future is polled.
Polled(b) ==
    /\ load.pc = "server"
    /\ \A x \in Bundles \ {b} : task[x].pc \notin {"read", "blocks"}

\* Lines 92-101: the semaphore is made and the futures of the selected entries
\* are collected into the FuturesUnordered; none has been polled yet.
ServerBegin(network) ==
    /\ load.pc = "idle"
    /\ \E has \in [Bundles -> {"true", "false", "err"}] :
          /\ \A b \in Bundles : has[b] \in HasResults(Manifest(b))
          /\ load' = [LoadIdle EXCEPT !.pc = "server", !.network = network,
                                      !.present = {b \in Bundles : has[b] = "true"}]
          /\ task' = [b \in Bundles |->
                         IF b \in Selected(network, has)
                         THEN [TaskOut EXCEPT !.pc = "acquire"] ELSE TaskOut]
    /\ semaphore' = Permits
    /\ UNCHANGED <<persistent, rolling, writer>>

\* Line 112: the future of b gets a permit.
Acquire(b) ==
    /\ Polled(b)
    /\ task[b].pc = "acquire"
    /\ PermitAvailable
    /\ semaphore' = semaphore - 1
    /\ task' = [task EXCEPT ![b].pc = "download"]
    /\ UNCHANGED <<persistent, load, rolling, writer>>

\* A `?` of the future of b returns an error: try_collect returns it and the
\* FuturesUnordered is dropped with the futures that have not finished.
Fail(b, why) ==
    /\ load' = [load EXCEPT !.pc = "returned", !.result = "err", !.why = why]
    /\ task' = [x \in Bundles |->
                   IF x = b THEN [task[b] EXCEPT !.pc = "err"]
                   ELSE IF task[x].pc \in {"out", "done"} THEN task[x]
                   ELSE [TaskOut EXCEPT !.pc = "dropped"]]
    /\ semaphore' = Permits

\* Lines 113-117: the download from the primary URL succeeds or fails.
Download(b) ==
    /\ Polled(b)
    /\ task[b].pc = "download"
    /\ \E ok \in BOOLEAN :
          task' = [task EXCEPT ![b].pc = IF ok THEN "read" ELSE "alt"]
    /\ UNCHANGED <<persistent, load, semaphore, rolling, writer>>

\* Line 119: the download from the alternative URL succeeds.
DownloadAlt(b) ==
    /\ Polled(b)
    /\ task[b].pc = "alt"
    /\ task' = [task EXCEPT ![b].pc = "read"]
    /\ UNCHANGED <<persistent, load, semaphore, rolling, writer>>

\* Line 119, `?`: the download from the alternative URL fails too.
DownloadAltFail(b) ==
    /\ Polled(b)
    /\ task[b].pc = "alt"
    /\ Fail(b, "download")
    /\ UNCHANGED <<persistent, rolling, writer>>

\* Lines 122-123: the file is read and CarStream::new decodes its header.
ReadCar(b) ==
    /\ Polled(b)
    /\ task[b].pc = "read"
    /\ \E roots \in CarRoots(b) :
          task' = [task EXCEPT ![b] = [pc |-> "blocks", roots |-> roots,
                                       left |-> Len(CarBlocks(b))]]
    /\ UNCHANGED <<persistent, load, semaphore, rolling, writer>>

\* Lines 122-123, `?`: the file cannot be read or is no CAR file.
ReadCarFail(b) ==
    /\ Polled(b)
    /\ task[b].pc = "read"
    /\ Fail(b, "read")
    /\ UNCHANGED <<persistent, rolling, writer>>

\* The next block the stream of b yields.
NextBlock(b) == CarBlocks(b)[Len(CarBlocks(b)) - task[b].left + 1]

\* Lines 124-125: the stream yields a block and put_keyed_persistent stores it.
PutBlock(b) ==
    /\ Polled(b)
    /\ task[b].pc = "blocks"
    /\ task[b].left > 0
    /\ persistent' = persistent \cup {NextBlock(b)}
    /\ task' = [task EXCEPT ![b].left = @ - 1]
    /\ UNCHANGED <<load, semaphore, rolling, writer>>

\* Lines 124-125, `?`: try_next or put_keyed_persistent returns an error.
PutBlockFail(b) ==
    /\ Polled(b)
    /\ task[b].pc = "blocks"
    /\ task[b].left > 0
    /\ Fail(b, "block")
    /\ UNCHANGED <<persistent, rolling, writer>>

\* Lines 128-129: the header declares one root and it is the manifest.
RootsAreTheManifest(b) ==
    /\ Len(task[b].roots) = 1
    /\ Head(task[b].roots) = Manifest(b)

\* Lines 127-130: the stream has ended, the roots are as expected, the future
\* returns Ok(root) and its permit is dropped.
RootCheck(b) ==
    /\ Polled(b)
    /\ task[b].pc = "blocks"
    /\ task[b].left = 0
    /\ RootsAreTheManifest(b)
    /\ task' = [task EXCEPT ![b].pc = "done"]
    /\ semaphore' = semaphore + 1
    /\ UNCHANGED <<persistent, load, rolling, writer>>

\* Lines 128-129, ensure!: the roots are not as expected.
RootCheckFail(b) ==
    /\ Polled(b)
    /\ task[b].pc = "blocks"
    /\ task[b].left = 0
    /\ ~RootsAreTheManifest(b)
    /\ Fail(b, "root")
    /\ UNCHANGED <<persistent, rolling, writer>>

\* Lines 135-136: every future has returned Ok, and so does try_collect.
ServerReturn ==
    /\ load.pc = "server"
    /\ \A b \in Bundles : task[b].pc \in {"out", "done"}
    /\ load' = [load EXCEPT !.pc = "returned", !.result = "ok"]
    /\ UNCHANGED <<persistent, task, semaphore, rolling, writer>>

\* The steps of the future of b.
TaskSteps(b) ==
    \/ Acquire(b)
    \/ Download(b)
    \/ DownloadAlt(b)
    \/ DownloadAltFail(b)
    \/ ReadCar(b)
    \/ ReadCarFail(b)
    \/ PutBlock(b)
    \/ PutBlockFail(b)
    \/ RootCheck(b)
    \/ RootCheckFail(b)

\* The root sets the header of the file at bundle_path may declare: the
\* manifests of one network, or a Cid that is no manifest.
PathRoots ==
    {{Manifest(b) : b \in {x \in Bundles : NetworkOf(x) = n}} : n \in Kinds}
        \cup {{Foreign}}

\* The blocks the stream of the file at bundle_path yields, in order.
PathBlocks == <<Manifest(1), Code(1)>>

\* Lines 46-57: the file exists and CarStream::new decodes its header.
PathBegin(network) ==
    /\ load.pc = "idle"
    /\ \E roots \in PathRoots :
          load' = [LoadIdle EXCEPT !.pc = "validate", !.network = network,
                                   !.roots = roots, !.left = Len(PathBlocks)]
    /\ UNCHANGED <<persistent, task, semaphore, rolling, writer>>

\* Lines 46-54: bundle_path is no file, or cannot be opened or decoded.
PathBeginFail(network) ==
    /\ load.pc = "idle"
    /\ load' = [LoadIdle EXCEPT !.pc = "returned", !.network = network,
                                !.result = "err", !.why = "file"]
    /\ UNCHANGED <<persistent, task, semaphore, rolling, writer>>

\* Lines 58-68: the roots contain the manifest of every entry of the network.
PathRootsContainManifests ==
    \A b \in Bundles : NetworkOf(b) = load.network => Manifest(b) \in load.roots

\* Lines 58-68: the validation, which passes or returns an error.
PathValidate ==
    /\ load.pc = "validate"
    /\ load' = IF PathRootsContainManifests
               THEN [load EXCEPT !.pc = "write"]
               ELSE [load EXCEPT !.pc = "returned", !.result = "err", !.why = "root"]
    /\ UNCHANGED <<persistent, task, semaphore, rolling, writer>>

\* Lines 71-72: the stream yields a block and put_keyed_persistent stores it.
PathPut ==
    /\ load.pc = "write"
    /\ load.left > 0
    /\ persistent' = persistent \cup {PathBlocks[Len(PathBlocks) - load.left + 1]}
    /\ load' = [load EXCEPT !.left = @ - 1]
    /\ UNCHANGED <<task, semaphore, rolling, writer>>

\* Lines 71-72, `?`: try_next or put_keyed_persistent returns an error.
PathPutFail ==
    /\ load.pc = "write"
    /\ load.left > 0
    /\ load' = [load EXCEPT !.pc = "returned", !.result = "err", !.why = "block"]
    /\ UNCHANGED <<persistent, task, semaphore, rolling, writer>>

\* Line 75: the stream has ended.
PathReturn ==
    /\ load.pc = "write"
    /\ load.left = 0
    /\ load' = [load EXCEPT !.pc = "returned", !.result = "ok"]
    /\ UNCHANGED <<persistent, task, semaphore, rolling, writer>>

\* One call of load_actor_bundles_from_server or load_actor_bundles_from_path
\* on a store that may hold the manifest of the first entry.
NextBundles ==
    \/ PutKeyedPersistent(Manifest(1))
    \/ \E n \in Kinds : ServerBegin(n)
    \/ \E b \in Bundles : TaskSteps(b)
    \/ ServerReturn
    \/ \E n \in Kinds : PathBegin(n)
    \/ \E n \in Kinds : PathBeginFail(n)
    \/ PathValidate
    \/ PathPut
    \/ PathPutFail
    \/ PathReturn

SpecBundles == Init /\ [][NextBundles]_vars

\* C21 as stated: in load_actor_bundles_from_server at most 4 futures are past
\* the permit acquisition and not finished, and the entries selected are of the
\* requested network and their manifest is not in the store when the call
\* begins.
C21_BoundedParallelismAsStated ==
    /\ [](Cardinality(Holding) <= 4)
    /\ [][\A n \in Kinds :
             ServerBegin(n) =>
                 \A b \in Bundles :
                     task'[b].pc # "out" =>
                         (NetworkOf(b) = n /\ Manifest(b) \notin persistent)]_vars

\* C21, amended: at most 4 futures are past the permit acquisition and not
\* finished, whatever the number of entries selected, and the entries selected
\* are of the requested network and db.has did not return Ok(true) for their
\* manifest: an entry whose manifest is in the store is selected all the same
\* when db.has returns an error for it.
C21_BoundedParallelism ==
    /\ Cardinality(Holding) <= 4
    /\ \A b \in Bundles :
          task[b].pc # "out" =>
              (NetworkOf(b) = load.network /\ b \notin load.present)
    /\ \A b \in load.present : Manifest(b) \in persistent

\* C21: four futures hold a permit, a fifth selected one waits for one, and an
\* entry of the requested network was left out because its manifest is in the
\* store.
C21_Witness ==
    /\ Cardinality(Holding) = 4
    /\ \E b \in Bundles : task[b].pc = "acquire"
    /\ \E b \in load.present : NetworkOf(b) = load.network /\ task[b].pc = "out"

\* The call that returned was load_actor_bundles_from_path and its root check
\* failed.
PathRootCheckFailed ==
    /\ load.pc = "returned"
    /\ load.why = "root"
    /\ \A b \in Bundles : task[b].pc # "err"

\* C22: when the root check of a bundle fails, the load has returned an error
\* and has written no block of that bundle, in load_actor_bundles_from_server
\* (the future of the bundle has put none of the blocks of its stream) and in
\* load_actor_bundles_from_path (none of the blocks of the file).
C22_VerifyBeforeTrust ==
    /\ \A b \in Bundles :
          (task[b].pc = "err" /\ load.why = "root") =>
              (load.result = "err" /\ task[b].left = Len(CarBlocks(b)))
    /\ PathRootCheckFailed =>
          (load.result = "err" /\ load.left = Len(PathBlocks))

\* C22, load_actor_bundles_from_path alone: a block of the file is written
\* only after the roots were found to contain the manifests, and a failed root
\* check leaves every block unwritten.
C22_PathVerifiesBeforeTrust ==
    /\ [][PathPut => PathRootsContainManifests]_vars
    /\ [](PathRootCheckFailed => (load.result = "err" /\ load.left = Len(PathBlocks)))

\* ------------------------------------------------------------------ AsyncWriterWithChecksum
\* inner.poll_write(cx, buf), line 33: Pending, an error, or Ready(Ok(size))
\* for a size up to the length of buf.
PollWriteResults(buf) ==
    {[kind |-> "pending", size |-> 0], [kind |-> "err", size |-> 0]}
        \cup {[kind |-> "ok", size |-> n] : n \in 0..Len(buf)}

\* The bytes hashed when the whole buffer is hashed, whatever was accepted.
HashedWhole(buf, size) == buf

\* Line 39, &buf[..size]: the bytes the hasher is updated with.
Hashed(buf, size) == SubSeq(buf, 1, size)

\* A hasher that finalize leaves as it is.
ResetKeeps(h) == h

\* Line 64, std::mem::replace(hasher, D::new()): the hasher finalize leaves.
Reset(h) == DigestNew

\* The last two entries of a sequence.
LastTwo(q) == IF Len(q) <= 2 THEN q ELSE SubSeq(q, Len(q) - 1, Len(q))

\* Lines 27-44: poll_write.
PollWrite(buf) ==
    /\ Len(inner) + Len(buf) <= MaxLen
    /\ \E w \in PollWriteResults(buf) :
          /\ inner' = IF w.kind = "ok" THEN inner \o SubSeq(buf, 1, w.size) ELSE inner
          /\ hasher' = IF w.kind = "ok" /\ w.size > 0
                       THEN {DigestUpdate(h, Hashed(buf, w.size)) : h \in hasher}
                       ELSE hasher
    /\ UNCHANGED <<checksum, rolling, bundle>>

\* Lines 46-51: poll_flush passes the call on to `inner`.
PollFlush ==
    /\ UNCHANGED <<writer, rolling, bundle>>

\* Lines 62-69: finalize.
Finalize ==
    /\ checksum' = LastTwo(Append(checksum,
                                  [input |-> inner,
                                   output |-> {DigestFinalize(h) : h \in hasher}]))
    /\ hasher' = {Reset(h) : h \in hasher}
    /\ inner' = <<>>
    /\ UNCHANGED <<rolling, bundle>>

\* A writer made with or without a checksum.
InitChecksum == InitRolling /\ InitBundle /\ \E e \in BOOLEAN : New(e)

NextChecksum ==
    \/ \E buf \in Bufs : PollWrite(buf)
    \/ PollFlush
    \/ Finalize

SpecChecksum == InitChecksum /\ [][NextChecksum]_vars

\* C23: with a checksum enabled, every finalize returned the digest of the
\* concatenation of the bytes `inner` had accepted since construction or since
\* the finalize before it (the digest of the empty input when there were none),
\* so that two finalize calls after the same bytes returned the same checksum;
\* with no checksum enabled, every finalize returned None.
C23_ChecksumOfAcceptedBytes ==
    /\ \A i \in DOMAIN checksum :
          checksum[i].output = IF hasher # {} THEN {DigestOf(checksum[i].input)}
                               ELSE {}
    /\ \A i, j \in DOMAIN checksum :
          checksum[i].input = checksum[j].input =>
              checksum[i].output = checksum[j].output
    /\ hasher # {} => hasher = {DigestUpdate(DigestNew, inner)}

\* C23: a writer with a checksum enabled was finalized twice, each time after
\* it had accepted the same two bytes or more.
C23_Witness ==
    /\ hasher # {}
    /\ Len(checksum) = 2
    /\ Len(checksum[1].input) >= 2
    /\ checksum[1].input = checksum[2].input
    /\ checksum[2].output = {DigestOf(checksum[2].input)}

====
